---- MODULE Spec2Model ----
(***************************************************************************)
(* Model of backtrace-ext's short_frames_strict (src/src/lib.rs).          *)
(*                                                                         *)
(* A backtrace is a sequence of frames, a frame a sequence of symbols.     *)
(* Only a symbol's optional name is read, and only through                 *)
(* name.contains(marker); a symbol is therefore modelled by the set of     *)
(* marker substrings its name contains, or NoName when name() is None.     *)
(* Indices are 0-based as in the source: frame i is frames[i + 1] here.    *)
(***************************************************************************)
EXTENDS Integers, Sequences, FiniteSets

\* ---------------------------------------------------------------- bounds
MaxFrames == 3
MaxSymbols == 3

\* ------------------------------------------------------------ input data
END_MARKER == "rust_end_short_backtrace"
BEGIN_MARKER == "rust_begin_short_backtrace"

NoName == {"<no name>"}
Symbol == {NoName} \cup SUBSET {END_MARKER, BEGIN_MARKER}

FramesUpTo(n) == UNION {[1..k -> Symbol] : k \in 0..n}

RECURSIVE TracesWith(_, _)
TracesWith(nframes, nsyms) ==
    IF nframes = 0 THEN {<< >>}
    ELSE UNION {{<<f>> \o t : t \in TracesWith(nframes - 1, nsyms - Len(f))}
                : f \in FramesUpTo(nsyms)}

Backtrace == UNION {TracesWith(n, MaxSymbols) : n \in 0..MaxFrames}

\* ------------------------------------------------------------- helpers
None == << >>
Some(a, b) == <<a, b>>

\* frame.name().and_then(|n| n.as_str()) followed by name.contains(marker)
NameContains(sym, marker) == sym # NoName /\ marker \in sym

\* Rust's derived ordering on (usize, usize): lexicographic
PosGreater(a, b) == a[1] > b[1] \/ (a[1] = b[1] /\ a[2] > b[2])

saturating_sub(a, b) == IF a >= b THEN a - b ELSE 0

Min(a, b) == IF a <= b THEN a ELSE b

\* frames[i].symbols().len(), 0-based i
SymbolsLen(frames, i) == Len(frames[i + 1])

\* short_start after visiting one symbol: every match overwrites
UpdateStart(cur, sym, frame_idx, subframe_idx) ==
    IF NameContains(sym, END_MARKER) THEN Some(frame_idx, subframe_idx) ELSE cur

\* short_end after visiting one symbol: only the first match is kept
UpdateEnd_overwrite(cur, sym, frame_idx, subframe_idx) ==
    IF NameContains(sym, BEGIN_MARKER) THEN Some(frame_idx, subframe_idx) ELSE cur

UpdateEnd(cur, sym, frame_idx, subframe_idx) ==
    IF NameContains(sym, BEGIN_MARKER) /\ cur = None
    THEN Some(frame_idx, subframe_idx) ELSE cur

\* the inner loop over symbols.iter().enumerate(), from subframe_idx on;
\* acc is <<short_start, short_end>>
RECURSIVE ScanSymbols(_, _, _, _)
ScanSymbols(symbols, frame_idx, subframe_idx, acc) ==
    IF subframe_idx >= Len(symbols) THEN acc
    ELSE ScanSymbols(symbols, frame_idx, subframe_idx + 1,
            << UpdateStart(acc[1], symbols[subframe_idx + 1], frame_idx, subframe_idx),
               UpdateEnd(acc[2], symbols[subframe_idx + 1], frame_idx, subframe_idx) >>)

\* the order check: both found and start > end
WrongOrder_frames_only(start, end) == start # None /\ end # None /\ start[1] > end[1]

WrongOrder(start, end) == start # None /\ end # None /\ PosGreater(start, end)

\* the start clamp: <<first_frame, first_subframe>>
StartClampOf_same_frame(frames, idx, sub_idx, last) == << idx, sub_idx + 1 >>

StartClampOf_no_min(frames, idx, sub_idx, last) ==
    IF SymbolsLen(frames, idx) = sub_idx + 1
    THEN << idx + 1, 0 >>
    ELSE << idx, sub_idx + 1 >>

StartClampOf(frames, idx, sub_idx, last) ==
    IF SymbolsLen(frames, idx) = sub_idx + 1
    THEN << Min(idx + 1, last), 0 >>
    ELSE << idx, sub_idx + 1 >>

\* frames.get(i).map(|f| f.symbols().len()).unwrap_or(0)
GetSymbolsLenOr0(frames, i) == IF i < Len(frames) THEN SymbolsLen(frames, i) ELSE 0

\* the end clamp: <<last_frame, last_subframe_excl>>
EndClampOf_same_frame(frames, idx, sub_idx) == << idx, sub_idx >>

EndClampOf_inclusive(frames, idx, sub_idx) ==
    IF sub_idx = 0
    THEN << saturating_sub(idx, 1), GetSymbolsLenOr0(frames, saturating_sub(idx, 1)) >>
    ELSE << idx, sub_idx + 1 >>

EndClampOf(frames, idx, sub_idx) ==
    IF sub_idx = 0
    THEN << saturating_sub(idx, 1), GetSymbolsLenOr0(frames, saturating_sub(idx, 1)) >>
    ELSE << idx, sub_idx >>

\* the closure of the final map: the range paired with the idx-th frame of the slice
SubRange_else_if(idx, nsyms, first_sub, adjusted_last, last_sub_excl) ==
    IF idx = 0 THEN << first_sub, nsyms >>
    ELSE IF idx = adjusted_last THEN << 0, last_sub_excl >>
    ELSE << 0, nsyms >>

SubRange(idx, nsyms, first_sub, adjusted_last, last_sub_excl) ==
    << IF idx = 0 THEN first_sub ELSE 0,
       IF idx = adjusted_last THEN last_sub_excl ELSE nsyms >>

\* frames[first..=last] is in bounds
SliceInBounds(frames, first, last) == first <= last + 1 /\ last + 1 <= Len(frames)

\* ---------------------------------------------------------------- state
VARIABLES frames, pc, frame_idx, short_start, short_end,
          first_frame, first_subframe, last_frame, last_subframe_excl,
          adjusted_last_frame, idx, out

vars == <<frames, pc, frame_idx, short_start, short_end,
          first_frame, first_subframe, last_frame, last_subframe_excl,
          adjusted_last_frame, idx, out>>

Init ==
    /\ frames \in Backtrace
    /\ pc = "scan"
    /\ frame_idx = 0
    /\ short_start = None
    /\ short_end = None
    /\ first_frame = 0
    /\ first_subframe = 0
    /\ last_frame = 0
    /\ last_subframe_excl = 0
    /\ adjusted_last_frame = 0
    /\ idx = 0
    /\ out = << >>

\* one iteration of the outer loop: scan every symbol of frame frame_idx
ScanFrame ==
    /\ pc = "scan"
    /\ frame_idx < Len(frames)
    /\ LET r == ScanSymbols(frames[frame_idx + 1], frame_idx, 0, <<short_start, short_end>>)
       IN /\ short_start' = r[1]
          /\ short_end' = r[2]
    /\ frame_idx' = frame_idx + 1
    /\ UNCHANGED <<frames, pc, first_frame, first_subframe, last_frame,
                   last_subframe_excl, adjusted_last_frame, idx, out>>

\* the outer loop is exhausted
ScanDone ==
    /\ pc = "scan"
    /\ frame_idx >= Len(frames)
    /\ pc' = "validate"
    /\ UNCHANGED <<frames, frame_idx, short_start, short_end, first_frame,
                   first_subframe, last_frame, last_subframe_excl,
                   adjusted_last_frame, idx, out>>

\* discard both markers when they are in the wrong order
Validate ==
    /\ pc = "validate"
    /\ IF WrongOrder(short_start, short_end)
       THEN short_start' = None /\ short_end' = None
       ELSE UNCHANGED <<short_start, short_end>>
    /\ pc' = "defaults"
    /\ UNCHANGED <<frames, frame_idx, first_frame, first_subframe, last_frame,
                   last_subframe_excl, adjusted_last_frame, idx, out>>

\* the default range: the full trace
Defaults ==
    /\ pc = "defaults"
    /\ first_frame' = 0
    /\ first_subframe' = 0
    /\ last_frame' = saturating_sub(Len(frames), 1)
    /\ last_subframe_excl' = IF Len(frames) > 0 THEN SymbolsLen(frames, Len(frames) - 1) ELSE 0
    /\ pc' = "start_clamp"
    /\ UNCHANGED <<frames, frame_idx, short_start, short_end,
                   adjusted_last_frame, idx, out>>

\* "If we found the start bound..."; frames[idx] panics when out of bounds
StartClamp ==
    /\ pc = "start_clamp"
    /\ IF short_start = None
       THEN pc' = "end_clamp" /\ UNCHANGED <<first_frame, first_subframe>>
       ELSE IF short_start[1] >= Len(frames)
       THEN pc' = "panic" /\ UNCHANGED <<first_frame, first_subframe>>
       ELSE LET r == StartClampOf(frames, short_start[1], short_start[2], last_frame)
            IN /\ first_frame' = r[1]
               /\ first_subframe' = r[2]
               /\ pc' = "end_clamp"
    /\ UNCHANGED <<frames, frame_idx, short_start, short_end, last_frame,
                   last_subframe_excl, adjusted_last_frame, idx, out>>

\* "If we found the end bound..."
EndClamp ==
    /\ pc = "end_clamp"
    /\ IF short_end = None
       THEN UNCHANGED <<last_frame, last_subframe_excl>>
       ELSE LET r == EndClampOf(frames, short_end[1], short_end[2])
            IN /\ last_frame' = r[1]
               /\ last_subframe_excl' = r[2]
    /\ pc' = "slice"
    /\ UNCHANGED <<frames, frame_idx, short_start, short_end, first_frame,
                   first_subframe, adjusted_last_frame, idx, out>>

\* adjusted_last_frame, then backtrace.frames()[first_frame..=last_frame],
\* which panics when the range is out of bounds or inverted
Slice ==
    /\ pc = "slice"
    /\ adjusted_last_frame' = saturating_sub(last_frame, first_frame)
    /\ pc' = IF SliceInBounds(frames, first_frame, last_frame) THEN "emit" ELSE "panic"
    /\ idx' = 0
    /\ UNCHANGED <<frames, frame_idx, short_start, short_end, first_frame,
                   first_subframe, last_frame, last_subframe_excl, out>>

\* the iterator yields its next (frame, range) pair
Emit ==
    /\ pc = "emit"
    /\ first_frame + idx <= last_frame
    /\ LET r == SubRange(idx, SymbolsLen(frames, first_frame + idx),
                         first_subframe, adjusted_last_frame, last_subframe_excl)
       IN out' = Append(out, [frame |-> first_frame + idx, start |-> r[1], end |-> r[2]])
    /\ idx' = idx + 1
    /\ UNCHANGED <<frames, pc, frame_idx, short_start, short_end, first_frame,
                   first_subframe, last_frame, last_subframe_excl, adjusted_last_frame>>

\* the iterator is exhausted
EmitDone ==
    /\ pc = "emit"
    /\ first_frame + idx > last_frame
    /\ pc' = "done"
    /\ UNCHANGED <<frames, frame_idx, short_start, short_end, first_frame,
                   first_subframe, last_frame, last_subframe_excl,
                   adjusted_last_frame, idx, out>>

Next ==
    \/ ScanFrame
    \/ ScanDone
    \/ Validate
    \/ Defaults
    \/ StartClamp
    \/ EndClamp
    \/ Slice
    \/ Emit
    \/ EmitDone

Spec == Init /\ [][Next]_vars

\* ------------------------------------------------- vocabulary of the claims
Positions == UNION {{<<f, s>> : s \in 0..(SymbolsLen(frames, f) - 1)} : f \in 0..(Len(frames) - 1)}

PosLess(a, b) == a[1] < b[1] \/ (a[1] = b[1] /\ a[2] < b[2])
PosLeq(a, b) == a = b \/ PosLess(a, b)

EndOcc == {p \in Positions : NameContains(frames[p[1] + 1][p[2] + 1], END_MARKER)}
BeginOcc == {p \in Positions : NameContains(frames[p[1] + 1][p[2] + 1], BEGIN_MARKER)}

\* the last end-marker and the first begin-marker occurrence in iteration order
SelEnd == CHOOSE p \in EndOcc : \A q \in EndOcc : PosLeq(q, p)
SelBegin == CHOOSE p \in BeginOcc : \A q \in BeginOcc : PosLeq(p, q)

Terminated == pc \in {"done", "panic"}
AfterClamps == pc \in {"slice", "emit", "done", "panic"}

FullOutput == [i \in 1..Len(frames) |->
                 [frame |-> i - 1, start |-> 0, end |-> Len(frames[i])]]

Covered(o) == UNION {{<<o[i].frame, s>> : s \in o[i].start..(o[i].end - 1)} : i \in 1..Len(o)}

InOrder(o) == \A i \in 1..(Len(o) - 1) : o[i].frame < o[i + 1].frame

ValidRange(r) == 0 <= r.start /\ r.start <= r.end /\ r.end <= SymbolsLen(frames, r.frame)

CountOr0(i) == IF i < Len(frames) THEN SymbolsLen(frames, i) ELSE 0

LastIndexOr0 == IF Len(frames) = 0 THEN 0 ELSE Len(frames) - 1

\* --------------------------------------------------------------- claims

\* C1: short_frames_strict never panics: for every trace the slice
\* frames[first_frame..=last_frame] is in bounds (first_frame <= last_frame + 1
\* <= number of frames), and the empty trace produces the empty output.
C1_NeverPanics ==
    /\ pc # "panic"
    /\ pc = "slice" => SliceInBounds(frames, first_frame, last_frame)
    /\ (Terminated /\ frames = << >>) => (pc = "done" /\ out = << >>)

\* C2: for every trace without any marker symbol, the call yields every frame
\* once, in original order, each with the full range [0, symbol_count).
C2_NoMarkersFullTrace ==
    (Terminated /\ EndOcc = {} /\ BeginOcc = {}) => (pc = "done" /\ out = FullOutput)

\* C3: when both markers are found and the selected end-marker position is
\* lexicographically greater than the selected begin-marker position, both are
\* discarded and the output is the full trace with full ranges.
C3_WrongOrderFullTrace ==
    (EndOcc # {} /\ BeginOcc # {} /\ PosGreater(SelEnd, SelBegin)) =>
        /\ pc \in {"defaults", "start_clamp", "end_clamp", "slice", "emit", "done", "panic"}
              => (short_start = None /\ short_end = None)
        /\ Terminated => (pc = "done" /\ out = FullOutput)

C3_Witness ==
    /\ pc = "done"
    /\ EndOcc # {} /\ BeginOcc # {} /\ PosGreater(SelEnd, SelBegin)
    /\ Len(frames) >= 2
    /\ out = FullOutput

\* C4: when both markers are found at distinct symbols with the selected
\* end-marker strictly before the selected begin-marker, the emitted pairs
\* cover exactly the positions strictly between the two, in original order.
C4_BothClamps ==
    (Terminated /\ EndOcc # {} /\ BeginOcc # {} /\ PosLess(SelEnd, SelBegin)) =>
        /\ pc = "done"
        /\ \A i \in 1..Len(out) : ValidRange(out[i])
        /\ InOrder(out)
        /\ Covered(out) = {p \in Positions : PosLess(SelEnd, p) /\ PosLess(p, SelBegin)}

\* end-marker the only symbol of frame 0, begin-marker the first symbol of
\* frame 2: exactly frame 1 with its full range
C4_Witness ==
    /\ pc = "done"
    /\ Len(frames) = 3
    /\ EndOcc = {<<0, 0>>} /\ Len(frames[1]) = 1
    /\ BeginOcc = {<<2, 0>>}
    /\ Len(frames[2]) = 1
    /\ out = << [frame |-> 1, start |-> 0, end |-> 1] >>

\* C5 as stated: with only the end-marker present, selected at (f, s), the
\* first emitted frame is f, or f + 1 if s is the last symbol index of frame f;
\* the last emitted frame is the last frame of the trace with its range ending
\* at that frame's symbol count.
C5_Original ==
    (Terminated /\ EndOcc # {} /\ BeginOcc = {}) =>
        /\ pc = "done"
        /\ out # << >>
        /\ out[1].frame = IF SelEnd[2] + 1 = SymbolsLen(frames, SelEnd[1])
                          THEN SelEnd[1] + 1 ELSE SelEnd[1]
        /\ out[Len(out)].frame = Len(frames) - 1
        /\ out[Len(out)].end = SymbolsLen(frames, Len(frames) - 1)

\* C5 (amended): with only the end-marker present, selected at (f, s), the
\* first emitted frame is f, or min(f + 1, last frame index) if s is the last
\* symbol index of frame f; no end-side clamp is applied.
C5_StartClampOnly ==
    (Terminated /\ EndOcc # {} /\ BeginOcc = {}) =>
        /\ pc = "done"
        /\ out # << >>
        /\ out[1].frame = IF SelEnd[2] + 1 = SymbolsLen(frames, SelEnd[1])
                          THEN Min(SelEnd[1] + 1, Len(frames) - 1) ELSE SelEnd[1]
        /\ out[Len(out)].frame = Len(frames) - 1
        /\ out[Len(out)].end = SymbolsLen(frames, Len(frames) - 1)

\* the end-marker is the last symbol of frame 0 and a frame follows
C5_Witness ==
    /\ pc = "done"
    /\ BeginOcc = {}
    /\ EndOcc # {} /\ SelEnd[1] = 0 /\ SelEnd[2] + 1 = SymbolsLen(frames, 0)
    /\ Len(frames) >= 2
    /\ out # << >> /\ out[1].frame = 1

\* C6 as stated: with only the begin-marker present, selected at (f, s), the
\* last emitted frame is f, or f - 1 if s = 0; the first emitted frame is
\* frame 0 with its range starting at 0.
C6_Original ==
    (Terminated /\ BeginOcc # {} /\ EndOcc = {}) =>
        /\ pc = "done"
        /\ out # << >>
        /\ out[Len(out)].frame = IF SelBegin[2] = 0 THEN SelBegin[1] - 1 ELSE SelBegin[1]
        /\ out[1].frame = 0
        /\ out[1].start = 0

\* C6 (amended): with only the begin-marker present, selected at (f, s), the
\* last emitted frame is f, or max(f - 1, 0) if s = 0; no start-side clamp is
\* applied.
C6_EndClampOnly ==
    (Terminated /\ BeginOcc # {} /\ EndOcc = {}) =>
        /\ pc = "done"
        /\ out # << >>
        /\ out[Len(out)].frame = IF SelBegin[2] = 0
                                 THEN saturating_sub(SelBegin[1], 1) ELSE SelBegin[1]
        /\ out[1].frame = 0
        /\ out[1].start = 0

\* the begin-marker is the first symbol of frame 2
C6_Witness ==
    /\ pc = "done"
    /\ EndOcc = {}
    /\ BeginOcc # {} /\ SelBegin = <<2, 0>>
    /\ Len(out) = 2 /\ out[2].frame = 1

\* C7: every emitted pair (frame, start..end) is a valid slice of that frame's
\* symbols: 0 <= start <= end <= symbol count.
C7_ValidSlices == \A i \in 1..Len(out) : ValidRange(out[i])

C9_Original ==
    (pc = "validate" /\ \E e \in EndOcc, b \in BeginOcc : PosLeq(e, b)) =>
        /\ short_start # None /\ short_end # None
        /\ ~PosGreater(short_start, short_end)
        /\ \A e \in EndOcc, b \in BeginOcc :
              (PosLeq(short_start, e) /\ PosLeq(e, b) /\ PosLeq(b, short_end))
                  => (e = short_start /\ b = short_end)

\* C9 (amended): the scan selects the last end-marker occurrence and the first
\* begin-marker occurrence; whenever that selected pair is correctly ordered,
\* no other correctly ordered (end-marker, begin-marker) pair lies strictly
\* inside it.
C9_InnermostPair ==
    pc = "validate" =>
        /\ short_start = IF EndOcc = {} THEN None ELSE SelEnd
        /\ short_end = IF BeginOcc = {} THEN None ELSE SelBegin
        /\ (short_start # None /\ short_end # None /\ ~PosGreater(short_start, short_end)) =>
              \A e \in EndOcc, b \in BeginOcc :
                 (PosLeq(short_start, e) /\ PosLeq(e, b) /\ PosLeq(b, short_end))
                     => (e = short_start /\ b = short_end)

\* repeated markers: two end-marker occurrences followed by a begin-marker
C9_Witness ==
    /\ pc = "validate"
    /\ Cardinality(EndOcc) >= 2 /\ Cardinality(BeginOcc) >= 1
    /\ short_start = SelEnd /\ short_end = SelBegin
    /\ PosLess(short_start, short_end)

\* C10: when the selected end-marker and begin-marker are at adjacent symbol
\* positions (f, s) and (f, s + 1) of one frame, the output is exactly one
\* pair: frame f with the empty range [s + 1, s + 1).
C10_AdjacentMarkers ==
    (Terminated /\ EndOcc # {} /\ BeginOcc # {}
       /\ SelBegin = <<SelEnd[1], SelEnd[2] + 1>>) =>
        /\ pc = "done"
        /\ out = << [frame |-> SelEnd[1], start |-> SelEnd[2] + 1, end |-> SelEnd[2] + 1] >>

C10_Witness ==
    /\ pc = "done"
    /\ EndOcc # {} /\ BeginOcc # {}
    /\ SelBegin = <<SelEnd[1], SelEnd[2] + 1>>
    /\ SelEnd[1] = 1
    /\ Len(frames) = 3
    /\ Len(out) = 1 /\ out[1].start = out[1].end
====
